---- MODULE Spec2Model ----
(***************************************************************************)
(* Model of backend/server.py: the dealer ordering backend.                *)
(*                                                                         *)
(* The persistent store is the three collections dealers, cart_items and   *)
(* orders (sequences of documents in insertion order; find_one returns the *)
(* first match).  Every route handler is a coroutine: it runs from one     *)
(* awaited store call to the next without interruption, and other requests *)
(* may run between two awaited calls.  A request in progress occupies a    *)
(* slot of req; each action below is one awaited store call of a handler   *)
(* together with the synchronous code that follows it up to the next       *)
(* awaited call.                                                           *)
(***************************************************************************)
EXTENDS Integers, Sequences, FiniteSets, TLC

\* ------------------------------------------------------------- bounds
\* Requests issued over a run.
MaxReq == 3
\* The clock runs from 0 to MaxTime minutes.
MaxTime == 6
\* Requests in progress at the same time.
MaxInFlight == 2

\* ------------------------------------------------- program constants
\* Dealer.credit_limit default.
CreditLimit == 100000
\* Minutes an OTP is valid: timedelta(minutes=5) of send_otp.
OtpTtl == 5

\* Optional[...] values: None is the empty tuple, a present value x is <<x>>.
None == <<>>
Some(x) == <<x>>
Val(o) == o[1]

\* PaymentMethod
COD == "cod"
ACCOUNT == "account"
PaymentMethods == {COD, ACCOUNT}

\* The two first documents of the catalog that seed_data inserts.
SeedProducts ==
  << [id |-> "opc43", name |-> "OPC 43 Grade Cement", price |-> 350],
     [id |-> "opc53", name |-> "OPC 53 Grade Cement", price |-> 380] >>

\* ----------------------------------------------------- request inputs
\* product_id values a client sends: the catalog's ids and an unknown one.
ProductInputs == {"opc43", "opc53", "nosuch"}
\* quantity values a client sends (CartItemCreate.quantity is any int).
Quantities == {-1, 1, 150}
\* Bearer tokens a client sends: the two dealers' tokens (generate_token
\* returns a fresh value every time, here the next integer) and a stale one.
TokenInputs == {1, 2, 0}
\* quantity values of update_cart_item (the parameter is any int).
NewQuantities == {-1, 0, 2}
\* phone values a client sends.
Phones == {"p1", "p2"}
\* Values generate_otp returns, and otp values a client sends.
OtpCodes == {"111111", "222222"}

VARIABLES
  dealers,     \* db.dealers
  cart_items,  \* db.cart_items
  orders,      \* db.orders
  products,    \* db.products
  nextId,      \* the next fresh uuid4
  req,         \* the requests in progress, by slot
  nreq,        \* requests issued so far
  resp,        \* the response most recently returned
  creditLog,   \* history: the account-credit orders returned to their callers
  effects,     \* history: the writes made after an order was persisted
  orderedRows, \* history: by order stored, the cart rows it was built from
  nextToken,   \* the next fresh value of generate_token
  now,         \* datetime.now(timezone.utc), in minutes
  used,        \* history: by phone, the codes verified since the last OTP was stored
  sent         \* history: by phone, the codes stored by send_otp, in the order stored

vars == <<dealers, cart_items, orders, products, nextId, req, nreq, resp,
          creditLog, effects, orderedRows, nextToken, now, used, sent>>

authvars == <<nextToken, now, used, sent>>
shopvars == <<cart_items, orders, creditLog, effects, orderedRows>>

db == <<dealers, cart_items, orders>>

\* ------------------------------------------------ store operations
\* A filter {"field": value, ...} matches the documents equal to it on its fields.
Matches(doc, filter) == \A k \in DOMAIN filter : doc[k] = filter[k]

\* Index of the first document of coll matching filter, 0 when there is none.
FirstMatch(coll, filter) ==
  LET S == {i \in 1..Len(coll) : Matches(coll[i], filter)}
  IN IF S = {} THEN 0 ELSE CHOOSE i \in S : \A j \in S : i <= j

\* collection.find_one(filter)
find_one(coll, filter) ==
  LET i == FirstMatch(coll, filter) IN IF i = 0 THEN None ELSE Some(coll[i])

\* collection.find(filter).to_list(1000)
find(coll, filter) == SelectSeq(coll, LAMBDA doc : Matches(doc, filter))

\* collection.update_one(filter, {"$set": set}): the fields of set replace
\* those of the first match; nothing happens when there is none.
update_one(coll, filter, set) ==
  LET i == FirstMatch(coll, filter)
  IN [k \in 1..Len(coll) |-> IF k = i THEN set @@ coll[k] ELSE coll[k]]

\* collection.delete_many(filter)
delete_many(coll, filter) == SelectSeq(coll, LAMBDA doc : ~Matches(doc, filter))

\* An insert that puts the document in the place of the last one stored.
insert_one_overwriting(coll, doc) ==
  IF coll = <<>> THEN <<doc>> ELSE [coll EXCEPT ![Len(coll)] = doc]

\* collection.insert_one(doc)
insert_one(coll, doc) == Append(coll, doc)

\* ------------------------------------------------------------ helpers
RECURSIVE SumSubtotals(_)
SumSubtotals(items) ==
  IF items = <<>> THEN 0
  ELSE items[1].subtotal + SumSubtotals(Tail(items))

\* get_current_dealer: the dealer document whose auth_token is the token.
get_current_dealer(token) ==
  find_one(dealers, [auth_token |-> Some(token)])

\* The loop of create_order over the cart rows read: a row whose product
\* resolves becomes an OrderItem, a row whose product does not is skipped.
RECURSIVE BuildOrderItems(_)
BuildOrderItems(rows) ==
  IF rows = <<>> THEN <<>>
  ELSE LET item == rows[1]
           product == find_one(products, [id |-> item.product_id])
           rest == BuildOrderItems(Tail(rows))
       IN IF product # None
          THEN << [product_id |-> Val(product).id,
                   product_name |-> Val(product).name,
                   quantity |-> item.quantity,
                   price |-> Val(product).price,
                   subtotal |-> Val(product).price * item.quantity] >> \o rest
          ELSE rest

\* ----------------------------------------------------------- requests
Slots == 1..MaxInFlight
Idle == [op |-> "none", pc |-> "idle"]
NoResp == [op |-> "none", request |-> None, status |-> 0, detail |-> "", body |-> None]

Free(s) == req[s].op = "none"
\* A request takes the lowest free slot.
CanStart(s) ==
  /\ nreq < MaxReq
  /\ Free(s)
  /\ \A t \in Slots : t < s => ~Free(t)

\* The handler of slot s returns or raises: the response, with the request
\* body it answers.
Respond(s, op, request, status, detail, body) ==
  /\ req' = [req EXCEPT ![s] = Idle]
  /\ resp' = [op |-> op, request |-> request, status |-> status,
              detail |-> detail, body |-> body]

\* ------------------------------------------------- POST /cart add_to_cart
\* The dependency get_current_dealer and the product lookup.
StartAddToCart(s, token, item_data) ==
  /\ CanStart(s)
  /\ nreq' = nreq + 1
  /\ LET dealer == get_current_dealer(token)
         product == find_one(products, [id |-> item_data.product_id])
     IN IF dealer = None
        THEN Respond(s, "add_to_cart", Some(item_data), 401, "Invalid token", None)
        ELSE IF product = None
        THEN Respond(s, "add_to_cart", Some(item_data), 404, "Product not found", None)
        ELSE /\ req' = [req EXCEPT ![s] =
                  [op |-> "add_to_cart", pc |-> "find_existing", rid |-> nreq + 1,
                   dealer |-> Val(dealer), item_data |-> item_data]]
             /\ resp' = resp
  /\ UNCHANGED <<products, dealers, cart_items, orders, nextId, creditLog, effects, orderedRows, authvars>>

\* existing = await db.cart_items.find_one({dealer_id, product_id})
AddFindExisting(s) ==
  /\ req[s].op = "add_to_cart" /\ req[s].pc = "find_existing"
  /\ LET r == req[s]
         existing == find_one(cart_items,
                       [dealer_id |-> r.dealer.id,
                        product_id |-> r.item_data.product_id])
     IN req' = [req EXCEPT ![s] =
                  [r EXCEPT !.pc = "write"] @@ [existing |-> existing]]
  /\ UNCHANGED <<products, dealers, cart_items, orders, nextId, nreq, resp, creditLog, effects, orderedRows, authvars>>

\* add_to_cart with the quantity of the existing row replaced, not incremented.
AddReplaceExisting(r) ==
  LET existing == Val(r.existing)
  IN update_one(cart_items, [id |-> existing.id],
                [quantity |-> r.item_data.quantity])

\* The write of add_to_cart on an existing row.
AddUpdateExisting(r) ==
  LET existing == Val(r.existing)
      new_quantity == existing.quantity + r.item_data.quantity
  IN update_one(cart_items, [id |-> existing.id], [quantity |-> new_quantity])

\* The update of the existing row, or the insert of a new one.
AddWrite(s) ==
  /\ req[s].op = "add_to_cart" /\ req[s].pc = "write"
  /\ LET r == req[s]
     IN IF r.existing # None
        THEN LET existing == Val(r.existing)
                 new_quantity == existing.quantity + r.item_data.quantity
             IN /\ cart_items' = AddUpdateExisting(r)
                /\ nextId' = nextId
                /\ Respond(s, "add_to_cart", Some(r.item_data), 200, "",
                           Some([existing EXCEPT !.quantity = new_quantity]))
        ELSE LET cart_item == [id |-> nextId, dealer_id |-> r.dealer.id,
                               product_id |-> r.item_data.product_id,
                               quantity |-> r.item_data.quantity]
             IN /\ cart_items' = insert_one(cart_items, cart_item)
                /\ nextId' = nextId + 1
                /\ Respond(s, "add_to_cart", Some(r.item_data), 200, "", Some(cart_item))
  /\ UNCHANGED <<products, dealers, orders, nreq, creditLog, effects, orderedRows, authvars>>

\* --------------------------------------- PUT /cart/{item_id} update_cart_item
\* The item ids a client can present: those of the rows stored, of whatever
\* dealer, and 0, which is the id of no row.
ItemIdInputs == {cart_items[i].id : i \in 1..Len(cart_items)} \cup {0}

\* collection.delete_one(filter)
delete_one(coll, filter) ==
  LET i == FirstMatch(coll, filter)
  IN IF i = 0 THEN coll
     ELSE SubSeq(coll, 1, i - 1) \o SubSeq(coll, i + 1, Len(coll))

\* result.matched_count, result.deleted_count of a one-document write
matched_count(coll, filter) == IF FirstMatch(coll, filter) = 0 THEN 0 ELSE 1

\* The filter of a cart row without its owner.
CartItemFilterAnyOwner(item_id, dealer) == [id |-> item_id]

\* {"id": item_id, "dealer_id": dealer.id}
CartItemFilter(item_id, dealer) == [id |-> item_id, dealer_id |-> dealer.id]

\* update_cart_item. The dependency get_current_dealer gives the handler the
\* dealer's id only, which no route changes, so the request is one step, at
\* its update_one.
UpdateCartItem(s, token, item_id, quantity) ==
  /\ CanStart(s)
  /\ nreq' = nreq + 1
  /\ LET dealer == get_current_dealer(token)
         request == Some([item_id |-> item_id, quantity |-> quantity, token |-> token])
     IN IF dealer = None
        THEN /\ Respond(s, "update_cart_item", request, 401, "Invalid token", None)
             /\ cart_items' = cart_items
        ELSE IF quantity <= 0
        THEN /\ Respond(s, "update_cart_item", request, 400, "Quantity must be greater than 0", None)
             /\ cart_items' = cart_items
        ELSE LET filter == CartItemFilter(item_id, Val(dealer))
             IN /\ cart_items' = update_one(cart_items, filter, [quantity |-> quantity])
                /\ IF matched_count(cart_items, filter) = 0
                   THEN Respond(s, "update_cart_item", request, 404, "Cart item not found", None)
                   ELSE Respond(s, "update_cart_item", request, 200, "Cart updated successfully", None)
  /\ UNCHANGED <<products, dealers, orders, nextId, creditLog, effects, orderedRows, authvars>>

\* --------------------------------------- DELETE /cart/{item_id} remove_from_cart
\* remove_from_cart, one step at its delete_one.
RemoveFromCart(s, token, item_id) ==
  /\ CanStart(s)
  /\ nreq' = nreq + 1
  /\ LET dealer == get_current_dealer(token)
         request == Some([item_id |-> item_id, token |-> token])
     IN IF dealer = None
        THEN /\ Respond(s, "remove_from_cart", request, 401, "Invalid token", None)
             /\ cart_items' = cart_items
        ELSE LET filter == CartItemFilter(item_id, Val(dealer))
             IN /\ cart_items' = delete_one(cart_items, filter)
                /\ IF matched_count(cart_items, filter) = 0
                   THEN Respond(s, "remove_from_cart", request, 404, "Cart item not found", None)
                   ELSE Respond(s, "remove_from_cart", request, 200, "Item removed from cart", None)
  /\ UNCHANGED <<products, dealers, orders, nextId, creditLog, effects, orderedRows, authvars>>

\* --------------------------------------- DELETE /cart clear_cart
\* clear_cart, one step at its delete_many.
ClearCart(s, token) ==
  /\ CanStart(s)
  /\ nreq' = nreq + 1
  /\ LET dealer == get_current_dealer(token)
         request == Some([token |-> token])
     IN IF dealer = None
        THEN /\ Respond(s, "clear_cart", request, 401, "Invalid token", None)
             /\ cart_items' = cart_items
        ELSE /\ cart_items' = delete_many(cart_items, [dealer_id |-> Val(dealer).id])
             /\ Respond(s, "clear_cart", request, 200, "Cart cleared successfully", None)
  /\ UNCHANGED <<products, dealers, orders, nextId, creditLog, effects, orderedRows, authvars>>

\* -------------------------------------------- POST /orders create_order
\* The dependency get_current_dealer: the handler's dealer is the document
\* as read here.
StartCreateOrder(s, token, order_data) ==
  /\ CanStart(s)
  /\ nreq' = nreq + 1
  /\ LET dealer == get_current_dealer(token)
     IN IF dealer = None
        THEN Respond(s, "create_order", Some(order_data), 401, "Invalid token", None)
        ELSE /\ req' = [req EXCEPT ![s] =
                  [op |-> "create_order", pc |-> "read_cart", rid |-> nreq + 1,
                   dealer |-> Val(dealer), order_data |-> order_data,
                   seen |-> {e.order : e \in {f \in effects : f.effect = "balance"}},
                   pre |-> [dealers |-> dealers, cart_items |-> cart_items,
                            orders |-> orders]]]
             /\ resp' = resp
  /\ UNCHANGED <<products, dealers, cart_items, orders, nextId, creditLog, effects, orderedRows, authvars>>

\* The credit check applied whatever the payment method.
InsufficientCreditAnyMethod(dealer, payment_method, total_amount) ==
  total_amount > dealer.credit_limit - dealer.outstanding_balance

\* The credit check with the outstanding balance left out.
InsufficientCreditIgnoringBalance(dealer, payment_method, total_amount) ==
  /\ payment_method = ACCOUNT
  /\ total_amount > dealer.credit_limit

\* The credit check of create_order.
InsufficientCredit(dealer, payment_method, total_amount) ==
  /\ payment_method = ACCOUNT
  /\ total_amount > dealer.credit_limit - dealer.outstanding_balance

\* create_order without its empty-cart check.
CartIsEmptyUnchecked(rows) == FALSE

\* if not cart_items
CartIsEmpty(rows) == rows = <<>>

\* An order marked pending whatever the payment method.
payment_status_pending(payment_method) == "pending"

\* PaymentStatus of a new order.
payment_status(payment_method) ==
  IF payment_method = COD THEN "pending" ELSE "completed"

\* cart_items = await db.cart_items.find(...), the loop over the rows and the
\* credit check. The routes do not write the catalog and the cart read does
\* not depend on it, so the lookups of the loop are taken with the read: a
\* product removed between the read and its lookup gives the rows of a
\* product removed before the read.
OrderReadCart(s) ==
  /\ req[s].op = "create_order" /\ req[s].pc = "read_cart"
  /\ LET r == req[s]
         rows == find(cart_items, [dealer_id |-> r.dealer.id])
         order_items == BuildOrderItems(rows)
         total_amount == SumSubtotals(order_items)
     IN IF CartIsEmpty(rows)
        THEN Respond(s, "create_order", Some(r.order_data), 400, "Cart is empty", None)
        ELSE IF InsufficientCredit(r.dealer, r.order_data.payment_method, total_amount)
        THEN Respond(s, "create_order", Some(r.order_data), 400, "Insufficient credit", None)
        ELSE /\ req' = [req EXCEPT ![s] =
                  [r EXCEPT !.pc = "insert_order"]
                  @@ [cart_items |-> rows, order_items |-> order_items,
                      total_amount |-> total_amount]]
             /\ resp' = resp
  /\ UNCHANGED <<products, dealers, cart_items, orders, nextId, nreq, creditLog, effects, orderedRows, authvars>>

\* Order(...) of create_order.
NewOrder(r, id) ==
  [id |-> id, dealer_id |-> r.dealer.id, items |-> r.order_items,
   total_amount |-> r.total_amount,
   payment_method |-> r.order_data.payment_method,
   payment_status |-> payment_status(r.order_data.payment_method),
   order_status |-> "pending"]

\* await db.orders.insert_one(doc)
OrderInsert(s) ==
  /\ req[s].op = "create_order" /\ req[s].pc = "insert_order"
  /\ LET r == req[s]
         order == NewOrder(r, nextId)
     IN /\ orders' = insert_one(orders, order)
        /\ nextId' = nextId + 1
        /\ req' = [req EXCEPT ![s] =
             [r EXCEPT !.pc = IF r.order_data.payment_method = ACCOUNT
                              THEN "update_balance" ELSE "clear_cart"]
             @@ [order |-> order]]
        /\ orderedRows' = orderedRows \cup {[order |-> order.id, rows |-> r.cart_items]}
  /\ UNCHANGED <<products, dealers, cart_items, nreq, resp, creditLog, effects, authvars>>

\* new_balance set to the order's total alone.
new_balance_total_only(r) == r.total_amount

\* new_balance of create_order: from the dealer as read by the dependency.
new_balance(r) == r.dealer.outstanding_balance + r.total_amount

\* await db.dealers.update_one({"id": dealer.id}, {"$set": {"outstanding_balance": new_balance}})
OrderUpdateBalance(s) ==
  /\ req[s].op = "create_order" /\ req[s].pc = "update_balance"
  /\ LET r == req[s]
     IN /\ dealers' = update_one(dealers, [id |-> r.dealer.id],
                                  [outstanding_balance |-> new_balance(r)])
        /\ req' = [req EXCEPT ![s] = [r EXCEPT !.pc = "clear_cart"]]
        /\ effects' = effects \cup {[order |-> r.order.id, effect |-> "balance"]}
  /\ UNCHANGED <<products, cart_items, orders, nextId, nreq, resp, creditLog, orderedRows, authvars>>

\* The rows left by the cart clearing of create_order.
ClearedCart(r) == delete_many(cart_items, [dealer_id |-> r.dealer.id])

\* await db.cart_items.delete_many({"dealer_id": dealer.id}); return order
OrderClearCart(s) ==
  /\ req[s].op = "create_order" /\ req[s].pc = "clear_cart"
  /\ LET r == req[s]
     IN /\ cart_items' = ClearedCart(r)
        /\ effects' = effects \cup {[order |-> r.order.id, effect |-> "cart"]}
        /\ creditLog' =
             IF r.order_data.payment_method = ACCOUNT
             THEN creditLog \cup {[order |-> r.order.id, dealer_id |-> r.dealer.id,
                                   seen |-> r.seen]}
             ELSE creditLog
        /\ Respond(s, "create_order", Some(r.order_data), 200, "", Some(r.order))
  /\ UNCHANGED <<products, dealers, orders, nextId, nreq, orderedRows, authvars>>

\* An awaited write of create_order raises (the store is unreachable, the
\* request is cancelled): the handler has no try/except and no transaction,
\* so it ends there with the writes made so far in place.
OrderStoreFailure(s) ==
  /\ req[s].op = "create_order"
  /\ req[s].pc \in {"insert_order", "update_balance", "clear_cart"}
  /\ Respond(s, "create_order", Some(req[s].order_data), 500, req[s].pc,
             IF req[s].pc = "insert_order" THEN None ELSE Some(req[s].order))
  /\ UNCHANGED <<products, dealers, cart_items, orders, nextId, nreq, creditLog, effects, orderedRows, authvars>>

\* ------------------------------------------ GET /orders/{order_id} get_order
\* The order ids a client can present: those of the orders stored, of
\* whatever dealer, and 0, which is the id of no order.
OrderIdInputs == {orders[i].id : i \in 1..Len(orders)} \cup {0}

\* The filter of an order without its owner.
OrderFilterAnyOwner(order_id, dealer) == [id |-> order_id]

\* {"id": order_id, "dealer_id": dealer.id}
OrderFilter(order_id, dealer) == [id |-> order_id, dealer_id |-> dealer.id]

\* get_order, one step at its find_one.
GetOrder(s, token, order_id) ==
  /\ CanStart(s)
  /\ nreq' = nreq + 1
  /\ LET dealer == get_current_dealer(token)
         request == Some([order_id |-> order_id, token |-> token])
     IN IF dealer = None
        THEN Respond(s, "get_order", request, 401, "Invalid token", None)
        ELSE LET order_doc == find_one(orders, OrderFilter(order_id, Val(dealer)))
             IN IF order_doc = None
                THEN Respond(s, "get_order", request, 404, "Order not found", None)
                ELSE Respond(s, "get_order", request, 200, "", order_doc)
  /\ UNCHANGED <<products, dealers, cart_items, orders, nextId, creditLog, effects, orderedRows, authvars>>

\* ------------------------------------------ db.products
\* The catalog is kept outside these routes (they only read it): a product
\* is taken out of db.products.
ProductRemoved(product_id) ==
  /\ find_one(products, [id |-> product_id]) # None
  /\ products' = delete_many(products, [id |-> product_id])
  /\ UNCHANGED <<dealers, cart_items, orders, nextId, req, nreq, resp, creditLog, effects, orderedRows, authvars>>

\* ------------------------------------------ POST /auth/register
\* A dealer document as register_dealer creates it.
NewDealer(id, phone) ==
  [id |-> id, phone |-> phone, credit_limit |-> CreditLimit,
   outstanding_balance |-> 0, auth_token |-> None, otp |-> None,
   otp_expires_at |-> None]

\* register_dealer going on to the insert whatever the lookup found.
AlreadyRegisteredUnchecked(existing) == FALSE

\* if existing: the phone has a dealer document already.
AlreadyRegistered(existing) == existing # None

\* existing = await db.dealers.find_one({"phone": dealer_data.phone})
StartRegister(s, dealer_data) ==
  /\ CanStart(s)
  /\ nreq' = nreq + 1
  /\ LET existing == find_one(dealers, [phone |-> dealer_data.phone])
     IN IF AlreadyRegistered(existing)
        THEN Respond(s, "register_dealer", Some(dealer_data), 400, "Phone number already registered", None)
        ELSE /\ req' = [req EXCEPT ![s] =
                  [op |-> "register_dealer", pc |-> "insert", rid |-> nreq + 1,
                   dealer_data |-> dealer_data]]
             /\ resp' = resp
  /\ UNCHANGED <<products, dealers, nextId, shopvars, nextToken, now, used, sent>>

\* await db.dealers.insert_one(doc)
RegisterInsert(s) ==
  /\ req[s].op = "register_dealer" /\ req[s].pc = "insert"
  /\ LET dealer == NewDealer(nextId, req[s].dealer_data.phone)
     IN /\ dealers' = insert_one(dealers, dealer)
        /\ nextId' = nextId + 1
        /\ Respond(s, "register_dealer", Some(req[s].dealer_data), 200, "", Some(dealer))
  /\ UNCHANGED <<products, nreq, shopvars, nextToken, now, used, sent>>

\* ------------------------------------------ POST /auth/send-otp
\* dealer_doc = await db.dealers.find_one({"phone": request.phone}), then
\* the code and its expiry are made.
StartSendOtp(s, phone, otp) ==
  /\ CanStart(s)
  /\ nreq' = nreq + 1
  /\ LET dealer_doc == find_one(dealers, [phone |-> phone])
     IN IF dealer_doc = None
        THEN Respond(s, "send_otp", Some([phone |-> phone]), 404, "Phone number not registered", None)
        ELSE /\ req' = [req EXCEPT ![s] =
                  [op |-> "send_otp", pc |-> "update", rid |-> nreq + 1,
                   phone |-> phone, otp |-> otp,
                   otp_expires_at |-> now + OtpTtl]]
             /\ resp' = resp
  /\ UNCHANGED <<products, dealers, nextId, shopvars, nextToken, now, used, sent>>

\* send_otp storing the new expiry and leaving the stored code in place.
SendOtpSetExpiryOnly(otp, otp_expires_at) ==
  [otp_expires_at |-> Some(otp_expires_at)]

\* The $set of send_otp on a dealer document.
SendOtpSet(otp, otp_expires_at) ==
  [otp |-> Some(otp), otp_expires_at |-> Some(otp_expires_at)]

\* await db.dealers.update_one({"phone": ...}, {"$set": {otp, otp_expires_at}})
SendOtpUpdate(s) ==
  /\ req[s].op = "send_otp" /\ req[s].pc = "update"
  /\ LET r == req[s]
     IN /\ dealers' = update_one(dealers, [phone |-> r.phone],
                                 SendOtpSet(r.otp, r.otp_expires_at))
        /\ used' = IF find_one(dealers, [phone |-> r.phone]) # None
                   THEN [used EXCEPT ![r.phone] = {}] ELSE used
        /\ sent' = IF find_one(dealers, [phone |-> r.phone]) # None
                   THEN [sent EXCEPT ![r.phone] = Append(@, r.otp)] ELSE sent
        /\ Respond(s, "send_otp", Some([phone |-> r.phone]), 200, "OTP sent successfully", Some(r.otp))
  /\ UNCHANGED <<products, nextId, nreq, shopvars, nextToken, now>>

\* ------------------------------------------ POST /auth/verify-otp
\* The checks of verify_otp without the comparison with the expiry.
VerifyOutcomeNoExpiry(dealer_doc, otp, t) ==
  IF dealer_doc = None THEN "Phone number not registered"
  ELSE IF Val(dealer_doc).otp # Some(otp) THEN "Invalid OTP"
  ELSE "ok"

\* The checks of verify_otp on the document read, at time t.
VerifyOutcome(dealer_doc, otp, t) ==
  IF dealer_doc = None THEN "Phone number not registered"
  ELSE IF Val(dealer_doc).otp # Some(otp) THEN "Invalid OTP"
  ELSE IF t > Val(Val(dealer_doc).otp_expires_at) THEN "OTP expired"
  ELSE "ok"

\* dealer_doc = await db.dealers.find_one({"phone": request.phone}), the
\* checks, and the new token.
StartVerifyOtp(s, phone, otp) ==
  /\ CanStart(s)
  /\ nreq' = nreq + 1
  /\ LET dealer_doc == find_one(dealers, [phone |-> phone])
         outcome == VerifyOutcome(dealer_doc, otp, now)
     IN IF outcome # "ok"
        THEN /\ Respond(s, "verify_otp", Some([phone |-> phone, otp |-> otp]),
                        IF dealer_doc = None THEN 404 ELSE 400, outcome, None)
             /\ nextToken' = nextToken
        ELSE /\ req' = [req EXCEPT ![s] =
                  [op |-> "verify_otp", pc |-> "update", rid |-> nreq + 1,
                   phone |-> phone, otp |-> otp, token |-> nextToken]]
             /\ nextToken' = nextToken + 1
             /\ resp' = resp
  /\ UNCHANGED <<products, dealers, nextId, shopvars, now, used, sent>>

\* verify_otp clearing the OTP and leaving the stored token in place.
VerifySetKeepingToken(token) == [otp |-> None, otp_expires_at |-> None]

\* verify_otp storing the token and leaving the OTP in place.
VerifySetKeepingOtp(token) == [auth_token |-> Some(token)]

\* The $set of verify_otp on a dealer document.
VerifySet(token) ==
  [auth_token |-> Some(token), otp |-> None, otp_expires_at |-> None]

\* await db.dealers.update_one({"phone": ...}, {"$set": {auth_token, otp, otp_expires_at}})
VerifyUpdate(s) ==
  /\ req[s].op = "verify_otp" /\ req[s].pc = "update"
  /\ LET r == req[s]
     IN /\ dealers' = update_one(dealers, [phone |-> r.phone], VerifySet(r.token))
        /\ used' = [used EXCEPT ![r.phone] = @ \cup {r.otp}]
        /\ sent' = sent
        /\ Respond(s, "verify_otp", Some([phone |-> r.phone, otp |-> r.otp]), 200, "", Some(r.token))
  /\ UNCHANGED <<products, nextId, nreq, shopvars, nextToken, now>>

\* ------------------------------------------ GET /auth/me
\* The tokens a client can present: those generated so far, and 0, which
\* was never generated.
PresentableTokens == 0..(nextToken - 1)

\* get_current_user: the dependency get_current_dealer and the return of
\* the dealer it found.
GetCurrentUser(s, token) ==
  /\ CanStart(s)
  /\ nreq' = nreq + 1
  /\ LET dealer == get_current_dealer(token)
     IN IF dealer = None
        THEN Respond(s, "get_current_user", Some([token |-> token]), 401, "Invalid token", None)
        ELSE Respond(s, "get_current_user", Some([token |-> token]), 200, "", dealer)
  /\ UNCHANGED <<products, dealers, nextId, shopvars, nextToken, now, used, sent>>

\* Time passes.
Tick ==
  /\ now < MaxTime
  /\ now' = now + 1
  /\ UNCHANGED <<products, dealers, nextId, req, nreq, resp, shopvars, nextToken, used, sent>>

\* ------------------------------------------------------ specifications
Idles ==
  /\ products = SeedProducts
  /\ req = [s \in Slots |-> Idle]
  /\ nreq = 0
  /\ resp = NoResp
  /\ used = [p \in Phones |-> {}]
  /\ sent = [p \in Phones |-> <<>>]
  /\ now = 0

\* A dealer registered (register_dealer) and logged in (send_otp, verify_otp).
LoggedIn(id, phone, token) == VerifySet(token) @@ NewDealer(id, phone)

\* The cart of dealer 1 after add_to_cart of 150 bags of opc43 (cart row 3).
PriorCart ==
  << [id |-> 3, dealer_id |-> 1, product_id |-> "opc43", quantity |-> 150] >>

\* The order that dealer 1 has after an account-credit create_order over
\* PriorCart (order 4).
PriorOrder ==
  LET items == BuildOrderItems(PriorCart)
  IN NewOrder([dealer |-> [id |-> 1], order_items |-> items,
               total_amount |-> SumSubtotals(items),
               order_data |-> [payment_method |-> ACCOUNT]], 4)

\* The ordering routes. Two dealers are registered and logged in and their
\* carts are empty; dealer 1 has placed no order yet, or has placed PriorOrder.
InitShop ==
  /\ cart_items = <<>>
  /\ nextToken = 3
  /\ Idles
  /\ \/ /\ dealers = << LoggedIn(1, "p1", 1), LoggedIn(2, "p2", 2) >>
        /\ orders = <<>>
        /\ nextId = 3
        /\ creditLog = {}
        /\ effects = {}
        /\ orderedRows = {}
     \/ /\ dealers = << [outstanding_balance |-> PriorOrder.total_amount]
                          @@ LoggedIn(1, "p1", 1),
                        LoggedIn(2, "p2", 2) >>
        /\ orders = << PriorOrder >>
        /\ nextId = 5
        /\ creditLog = {[order |-> 4, dealer_id |-> 1, seen |-> {}]}
        /\ effects = {[order |-> 4, effect |-> "balance"],
                      [order |-> 4, effect |-> "cart"]}
        /\ orderedRows = {[order |-> 4, rows |-> PriorCart]}

Step(s) ==
  \/ AddFindExisting(s)
  \/ AddWrite(s)
  \/ OrderReadCart(s)
  \/ OrderInsert(s)
  \/ OrderUpdateBalance(s)
  \/ OrderClearCart(s)
  \/ OrderStoreFailure(s)

Start(s) ==
  \/ \E token \in TokenInputs, p \in ProductInputs, q \in Quantities :
       StartAddToCart(s, token, [product_id |-> p, quantity |-> q])
  \/ \E token \in TokenInputs, m \in PaymentMethods :
       StartCreateOrder(s, token, [payment_method |-> m])
  \/ \E token \in TokenInputs, order_id \in OrderIdInputs :
       GetOrder(s, token, order_id)

\* Requests interleave at their awaited calls.
Init == InitShop

Next ==
  \E s \in Slots :
    \/ Start(s)
    \/ Step(s)
    \/ \E token \in TokenInputs, item_id \in ItemIdInputs, q \in NewQuantities :
         UpdateCartItem(s, token, item_id, q)

Spec == Init /\ [][Next]_vars

\* Requests one at a time: a request starts only when none is in progress.
InitSerial == InitShop

NextSerial ==
  \E s \in Slots :
    \/ (\A t \in Slots : Free(t)) /\ Start(s)
    \/ Step(s)

SpecSerial == InitSerial /\ [][NextSerial]_vars

\* The ordering routes, one request at a time, with a catalog that can lose
\* products between and during the requests.
InitCatalog == InitShop

NextCatalog ==
  \/ NextSerial
  \/ \E i \in 1..Len(products) : ProductRemoved(products[i].id)

SpecCatalog == InitCatalog /\ [][NextCatalog]_vars

\* The cart routes, one request at a time. Each dealer has one row in the
\* cart, as after one add_to_cart by each (rows 3 and 4).
InitCart ==
  /\ dealers = << LoggedIn(1, "p1", 1), LoggedIn(2, "p2", 2) >>
  /\ cart_items = << [id |-> 3, dealer_id |-> 1, product_id |-> "opc43", quantity |-> 1],
                     [id |-> 4, dealer_id |-> 2, product_id |-> "opc43", quantity |-> 150] >>
  /\ orders = <<>>
  /\ nextId = 5
  /\ nextToken = 3
  /\ creditLog = {}
  /\ effects = {}
  /\ orderedRows = {}
  /\ Idles

StartCart(s) ==
  \/ \E token \in TokenInputs, p \in ProductInputs, q \in Quantities :
       StartAddToCart(s, token, [product_id |-> p, quantity |-> q])
  \/ \E token \in TokenInputs, item_id \in ItemIdInputs, q \in NewQuantities :
       UpdateCartItem(s, token, item_id, q)
  \/ \E token \in TokenInputs, item_id \in ItemIdInputs :
       RemoveFromCart(s, token, item_id)
  \/ \E token \in TokenInputs : ClearCart(s, token)

StepCart(s) ==
  \/ AddFindExisting(s)
  \/ AddWrite(s)

NextCart ==
  \E s \in Slots :
    \/ (\A t \in Slots : Free(t)) /\ StartCart(s)
    \/ StepCart(s)

SpecCart == InitCart /\ [][NextCart]_vars

\* The authentication routes, interleaving. The dealer of phone p1 is
\* registered and logged in; phone p2 is not registered.
InitAuth ==
  /\ dealers = << LoggedIn(1, "p1", 1) >>
  /\ cart_items = <<>>
  /\ orders = <<>>
  /\ nextId = 2
  /\ nextToken = 2
  /\ creditLog = {}
  /\ effects = {}
  /\ orderedRows = {}
  /\ Idles

StartAuth(s) ==
  \/ \E phone \in Phones : StartRegister(s, [phone |-> phone])
  \/ \E phone \in Phones, otp \in OtpCodes : StartSendOtp(s, phone, otp)
  \/ \E phone \in Phones, otp \in OtpCodes : StartVerifyOtp(s, phone, otp)
  \/ \E token \in PresentableTokens : GetCurrentUser(s, token)

StepAuth(s) ==
  \/ RegisterInsert(s)
  \/ SendOtpUpdate(s)
  \/ VerifyUpdate(s)

NextAuth == Tick \/ \E s \in Slots : StartAuth(s) \/ StepAuth(s)

SpecAuth == InitAuth /\ [][NextAuth]_vars

\* ------------------------------------------------------------- claims
CartOf(coll, d) == find(coll, [dealer_id |-> d])
RowsOf(coll, d, p) == find(coll, [dealer_id |-> d, product_id |-> p])
DealerOf(coll, d) == Val(find_one(coll, [id |-> d]))
CatalogPrice(p) == Val(find_one(products, [id |-> p])).price

RECURSIVE SumTo(_, _)
SumTo(f, n) == IF n = 0 THEN 0 ELSE f[n] + SumTo(f, n - 1)

\* The total of the account-credit orders of dealer d.
AccountTotal(d) ==
  SumTo([i \in 1..Len(orders) |->
           IF orders[i].dealer_id = d /\ orders[i].payment_method = ACCOUNT
           THEN orders[i].total_amount ELSE 0], Len(orders))

\* The total of the cart rows of dealer d at the catalog's prices.
CartTotal(d) ==
  LET rows == CartOf(cart_items, d)
  IN SumTo([i \in 1..Len(rows) |-> CatalogPrice(rows[i].product_id) * rows[i].quantity],
           Len(rows))

OrderInProgress(d) ==
  \E s \in Slots : req[s].op = "create_order" /\ req[s].dealer.id = d

\* C1: two account-credit orders of one dealer that both succeed never both
\* had their credit check evaluated against the same pre-update balance: the
\* dealer document one of them read already held the other's balance update.
NoStaleCreditCheck ==
  \A a, b \in creditLog :
    (a.order # b.order /\ a.dealer_id = b.dealer_id)
      => (a.order \in b.seen \/ b.order \in a.seen)

\* C2: once a create_order request is over, an order it persisted has its
\* balance update (account-credit) and its cart clearing made as well.
AtomicOrderEffects ==
  \A i \in 1..Len(orders) :
    LET o == orders[i]
        open == \E s \in Slots : /\ req[s].op = "create_order"
                                /\ req[s].pc \in {"update_balance", "clear_cart"}
                                /\ req[s].order.id = o.id
    IN ~open =>
         /\ o.payment_method = ACCOUNT
              => [order |-> o.id, effect |-> "balance"] \in effects
         /\ [order |-> o.id, effect |-> "cart"] \in effects

\* The step in which the create_order request of slot s returns its order.
OrderReturns(s) ==
  /\ req[s].op = "create_order" /\ req[s].pc = "clear_cart"
  /\ req'[s] = Idle
  /\ resp'.op = "create_order" /\ resp'.status = 200

\* C3: when an account-credit create_order succeeds, the balance is the
\* balance before the request plus the order's total, the dealer's cart is
\* empty, and the orders are those before the request and one new order whose
\* items are the cart rows before the request (product, quantity, catalog
\* price, subtotal = price * quantity), its total the sum of the subtotals.
AccountOrderEffect ==
  [][\A s \in Slots :
       (OrderReturns(s) /\ req[s].order_data.payment_method = ACCOUNT) =>
         LET r == req[s]
             d == r.dealer.id
             o == Val(resp'.body)
             rows == CartOf(r.pre.cart_items, d)
         IN /\ DealerOf(dealers', d).outstanding_balance
                 = DealerOf(r.pre.dealers, d).outstanding_balance + o.total_amount
            /\ CartOf(cart_items', d) = <<>>
            /\ orders' = Append(r.pre.orders, o)
            /\ o.dealer_id = d
            /\ Len(o.items) = Len(rows)
            /\ \A i \in 1..Len(rows) :
                 /\ o.items[i].product_id = rows[i].product_id
                 /\ o.items[i].quantity = rows[i].quantity
                 /\ o.items[i].price = CatalogPrice(rows[i].product_id)
                 /\ o.items[i].subtotal = o.items[i].price * o.items[i].quantity
            /\ o.total_amount
                 = SumTo([i \in 1..Len(o.items) |-> o.items[i].subtotal], Len(o.items))
    ]_vars

AccountOrderReturned ==
  /\ resp.op = "create_order" /\ resp.status = 200
  /\ Val(resp.request).payment_method = ACCOUNT
  /\ Len(orders) = 2
  /\ \A i \in 1..2 : /\ orders[i].dealer_id = Val(resp.body).dealer_id
                      /\ orders[i].payment_method = ACCOUNT
                      /\ orders[i].total_amount > 0
  /\ DealerOf(dealers, Val(resp.body).dealer_id).outstanding_balance
       = orders[1].total_amount + orders[2].total_amount
  /\ cart_items = <<>>

\* C4: an account-credit create_order whose cart total exceeds credit_limit
\* - outstanding_balance is answered "Insufficient credit", and dealers,
\* cart_items and orders are as they were before the request.
InsufficientCreditRejected ==
  [][\A s \in Slots :
       LET r == req[s] IN
       ( /\ r.op = "create_order" /\ r.pc = "read_cart" /\ req'[s] # r
         /\ r.order_data.payment_method = ACCOUNT
         /\ CartTotal(r.dealer.id)
              > DealerOf(dealers, r.dealer.id).credit_limit
                - DealerOf(dealers, r.dealer.id).outstanding_balance )
       => /\ req'[s] = Idle
          /\ resp'.op = "create_order" /\ resp'.status = 400
          /\ resp'.detail = "Insufficient credit"
          /\ dealers' = dealers /\ cart_items' = cart_items /\ orders' = orders
          /\ dealers = r.pre.dealers /\ cart_items = r.pre.cart_items
          /\ orders = r.pre.orders
    ]_vars

InsufficientCreditAnswered ==
  /\ resp.op = "create_order" /\ resp.status = 400
  /\ resp.detail = "Insufficient credit"
  /\ \E i \in 1..Len(dealers) :
       /\ dealers[i].outstanding_balance > 0
       /\ CartTotal(dealers[i].id) > CreditLimit - dealers[i].outstanding_balance
       /\ CartTotal(dealers[i].id) <= CreditLimit

\* C5: a create_order of a dealer whose cart has no rows is answered "Cart
\* is empty" for either payment method, and dealers, cart_items and orders
\* are unchanged.
EmptyCartRejected ==
  [][\A s \in Slots :
       LET r == req[s] IN
       ( /\ r.op = "create_order" /\ r.pc = "read_cart" /\ req'[s] # r
         /\ CartOf(cart_items, r.dealer.id) = <<>> )
       => /\ req'[s] = Idle
          /\ resp'.op = "create_order" /\ resp'.status = 400
          /\ resp'.detail = "Cart is empty"
          /\ dealers' = dealers /\ cart_items' = cart_items /\ orders' = orders
          /\ dealers = r.pre.dealers /\ cart_items = r.pre.cart_items
          /\ orders = r.pre.orders
    ]_vars

EmptyCartAnswered ==
  /\ resp.op = "create_order" /\ resp.status = 400
  /\ resp.detail = "Cart is empty"
  /\ Val(resp.request).payment_method = ACCOUNT
  /\ cart_items # <<>>

\* C6: when no create_order of a dealer is in progress, the dealer's
\* outstanding_balance is the sum of total_amount over the dealer's
\* account-credit orders.
BalanceIsSumOfAccountOrders ==
  \A i \in 1..Len(dealers) :
    ~OrderInProgress(dealers[i].id)
      => dealers[i].outstanding_balance = AccountTotal(dealers[i].id)

\* C7: no step decreases a dealer's outstanding_balance.
BalanceNeverDecreases ==
  [][\A i \in 1..Len(dealers) :
       dealers'[i].outstanding_balance >= dealers[i].outstanding_balance]_vars

\* C8: add(p, q) by a dealer leaves exactly one row for (dealer, p): with
\* quantity q when there was none, and the existing row with its quantity
\* plus q when there was one; so add(p, q1) then add(p, q2) leaves one row of
\* quantity q1 + q2.
AddIncrementsExistingRow ==
  [][\A s \in Slots :
       LET r == req[s] IN
       (r.op = "add_to_cart" /\ r.pc = "write" /\ req'[s] = Idle) =>
         LET d == r.dealer.id
             p == r.item_data.product_id
             q == r.item_data.quantity
             before == RowsOf(cart_items, d, p)
             after == RowsOf(cart_items', d, p)
             last == Val(resp.body)
         IN /\ Len(after) = 1
            /\ before = <<>> => after[1].quantity = q
            /\ before # <<>> => /\ after[1].id = before[1].id
                                /\ after[1].quantity = before[1].quantity + q
            \* the request before this one was an add of the same dealer and
            \* product that created the row with quantity q1
            /\ ( /\ resp.op = "add_to_cart" /\ resp.status = 200
                 /\ last.dealer_id = d /\ last.product_id = p
                 /\ last.quantity = Val(resp.request).quantity )
               => after[1].quantity = Val(resp.request).quantity + q
            /\ Val(resp'.body) = after[1]
    ]_vars

TwoAddsOneRow ==
  /\ resp.op = "add_to_cart" /\ resp.status = 200
  /\ Val(resp.body).quantity = 151
  /\ Len(RowsOf(cart_items, Val(resp.body).dealer_id, Val(resp.body).product_id)) = 1
  /\ Len(cart_items) = 1

\* C9: cart_items holds at most one row per (dealer_id, product_id).
AtMostOneRowPerPair ==
  \A i, j \in 1..Len(cart_items) :
    (cart_items[i].dealer_id = cart_items[j].dealer_id
     /\ cart_items[i].product_id = cart_items[j].product_id) => i = j

\* C10: after a verify_otp of a phone succeeded and until an OTP is stored
\* for it again, the dealer's otp and otp_expires_at are cleared, a
\* verify_otp of that phone with the same code fails, and no token is made
\* for that code.
OtpSingleUse ==
  /\ [](\A p \in Phones :
          used[p] # {} =>
            LET dealer_doc == find_one(dealers, [phone |-> p])
            IN /\ dealer_doc # None
               /\ Val(dealer_doc).otp = None
               /\ Val(dealer_doc).otp_expires_at = None
               /\ \A otp \in used[p] : VerifyOutcome(dealer_doc, otp, now) # "ok")
  /\ [][nextToken' # nextToken =>
          \E s \in Slots : /\ Free(s) /\ req'[s].op = "verify_otp"
                           /\ req'[s].otp \notin used[req'[s].phone]]_vars

OtpReuseRefused ==
  /\ resp.op = "verify_otp" /\ resp.status = 400 /\ resp.detail = "Invalid OTP"
  /\ Val(resp.request).otp \in used[Val(resp.request).phone]

\* C11: a verify_otp that presents the stored code of a dealer later than the
\* stored expiry is answered 400 "OTP expired" at once: it never goes on to
\* the write, and no dealer document (auth_token, otp, otp_expires_at) changes.
VerifyRequest(p, c) == Some([phone |-> p, otp |-> c])

ExpiredOtpRejected ==
  [][\A p \in Phones, c \in OtpCodes :
       LET dealer_doc == find_one(dealers, [phone |-> p])
       IN (/\ nreq' = nreq + 1
           /\ dealer_doc # None
           /\ Val(dealer_doc).otp = Some(c)
           /\ now > Val(Val(dealer_doc).otp_expires_at))
          => /\ \A s \in Slots :
                  ~(/\ Free(s)
                    /\ req'[s].op = "verify_otp"
                    /\ req'[s].phone = p
                    /\ req'[s].otp = c)
             /\ (req' = req /\ resp'.op = "verify_otp" /\ resp'.request = VerifyRequest(p, c))
                  => /\ resp'.status = 400
                     /\ resp'.detail = "OTP expired"
                     /\ dealers' = dealers
                     /\ nextToken' = nextToken]_vars

\* The stored code was presented after its expiry and refused; the code, its
\* expiry and the session token of the dealer are still in place.
ExpiredOtpAnswered ==
  /\ resp.op = "verify_otp"
  /\ resp.status = 400
  /\ resp.detail = "OTP expired"
  /\ \E i \in 1..Len(dealers) :
       /\ resp.request = VerifyRequest(dealers[i].phone, Val(dealers[i].otp))
       /\ now > Val(dealers[i].otp_expires_at)
       /\ dealers[i].auth_token = Some(1)

\* C12: a dealer has at most one live session token. When a verify_otp
\* succeeds with a new token, that token authenticates as the dealer of the
\* phone and no other token does; and get_current_user answers 200 only for
\* a token that is the stored auth_token of a dealer, with that dealer, and
\* 401 for every other token.
TokenOwner(coll, token) == find_one(coll, [auth_token |-> Some(token)])

SingleLiveToken ==
  [][/\ \A s \in Slots :
          (req[s].op = "verify_otp" /\ req'[s] = Idle /\ resp'.status = 200)
          => /\ TokenOwner(dealers', req[s].token) # None
             /\ Val(TokenOwner(dealers', req[s].token)).phone = req[s].phone
             /\ \A t \in PresentableTokens \ {req[s].token} :
                  \/ TokenOwner(dealers', t) = None
                  \/ Val(TokenOwner(dealers', t)).phone # req[s].phone
     /\ (nreq' = nreq + 1 /\ req' = req /\ resp'.op = "get_current_user")
          => LET token == Val(resp'.request).token
             IN IF \E i \in 1..Len(dealers) : dealers[i].auth_token = Some(token)
                THEN /\ resp'.status = 200
                     /\ \E i \in 1..Len(dealers) : resp'.body = Some(dealers[i])
                     /\ Val(resp'.body).auth_token = Some(token)
                ELSE /\ resp'.status = 401
                     /\ resp'.body = None]_vars

\* The dealer of p1 logged in again, and the token of the earlier session
\* (token 1) was then refused.
OldTokenRefused ==
  /\ resp.op = "get_current_user"
  /\ resp.request = Some([token |-> 1])
  /\ resp.status = 401
  /\ \E i \in 1..Len(dealers) :
       /\ dealers[i].phone = "p1"
       /\ dealers[i].auth_token # None
       /\ Val(dealers[i].auth_token) > 1

\* C13: a register_dealer for a phone that has a dealer document is answered
\* 400 "Phone number already registered" at once: it never goes on to the
\* insert, and the dealers collection is left as it was (no document added,
\* none changed).
DuplicatePhoneRejected ==
  [][\A p \in Phones :
       (nreq' = nreq + 1 /\ find_one(dealers, [phone |-> p]) # None)
       => /\ \A s \in Slots :
               ~(/\ Free(s)
                 /\ req'[s].op = "register_dealer"
                 /\ req'[s].dealer_data.phone = p)
          /\ (req' = req /\ resp'.op = "register_dealer" /\ resp'.request = Some([phone |-> p]))
               => /\ resp'.status = 400
                  /\ resp'.detail = "Phone number already registered"
                  /\ resp'.body = None
                  /\ dealers' = dealers]_vars

\* Phone p2 was registered, a second registration of it was refused, and the
\* dealers are the two registered ones.
DuplicatePhoneAnswered ==
  /\ resp.op = "register_dealer"
  /\ resp.status = 400
  /\ resp.request = Some([phone |-> "p2"])
  /\ dealers = << LoggedIn(1, "p1", 1), NewDealer(2, "p2") >>

\* C14: an update_cart_item of an authenticated dealer is answered 400 when
\* its quantity is 0 or less, and 404 when no cart row has the item id and
\* belongs to that dealer; in both cases the cart rows are left as they were.
\* Whatever the answer, the rows of the other dealers are left as they were.
IsRequest(op) == nreq' = nreq + 1 /\ req' = req /\ resp'.op = op

UpdateRefusedLeavesCart ==
  [][IsRequest("update_cart_item") =>
       LET request == Val(resp'.request)
           dealer == get_current_dealer(request.token)
       IN dealer # None =>
            LET owned == \E i \in 1..Len(cart_items) :
                           /\ cart_items[i].id = request.item_id
                           /\ cart_items[i].dealer_id = Val(dealer).id
            IN /\ request.quantity <= 0
                    => /\ resp'.status = 400
                       /\ resp'.detail = "Quantity must be greater than 0"
                       /\ cart_items' = cart_items
               /\ (request.quantity > 0 /\ ~owned)
                    => /\ resp'.status = 404
                       /\ resp'.detail = "Cart item not found"
                       /\ cart_items' = cart_items
               /\ Len(cart_items') = Len(cart_items)
               /\ \A i \in 1..Len(cart_items) :
                    cart_items[i].dealer_id # Val(dealer).id
                    => cart_items'[i] = cart_items[i]]_vars

\* Dealer 2 asked for a new quantity of row 3, a row of dealer 1, and was
\* answered 404; the row has the quantity it had.
UpdateOfForeignRowRefused ==
  /\ resp.op = "update_cart_item"
  /\ resp.status = 404
  /\ resp.request = Some([item_id |-> 3, quantity |-> 2, token |-> 2])
  /\ find_one(cart_items, [id |-> 3])
       = Some([id |-> 3, dealer_id |-> 1, product_id |-> "opc43", quantity |-> 1])

\* C15: get_order of an authenticated dealer returns an order exactly when an
\* order of that id exists and its dealer_id is that dealer, and it is that
\* order; for the id of another dealer's order the answer is the 404 "Order
\* not found" given for an id of no order.
GetOrderOwnOnly ==
  [][IsRequest("get_order") =>
       LET request == Val(resp'.request)
           dealer == get_current_dealer(request.token)
       IN dealer # None =>
            LET own == {i \in 1..Len(orders) :
                          /\ orders[i].id = request.order_id
                          /\ orders[i].dealer_id = Val(dealer).id}
            IN IF own # {}
               THEN /\ resp'.status = 200
                    /\ \E i \in own : resp'.body = Some(orders[i])
               ELSE /\ resp'.status = 404
                    /\ resp'.detail = "Order not found"
                    /\ resp'.body = None]_vars

\* Dealer 2 asked for an order of dealer 1 and was answered 404.
ForeignOrderNotFound ==
  /\ resp.op = "get_order"
  /\ resp.status = 404
  /\ resp.detail = "Order not found"
  /\ Val(resp.request).token = 2
  /\ \E i \in 1..Len(orders) :
       /\ orders[i].id = Val(resp.request).order_id
       /\ orders[i].dealer_id = 1

\* C16: every order stored has order_status "pending", and payment_status
\* "pending" when its payment method is cash on delivery, "completed" when
\* it is account credit.
OrderStatusesByMethod ==
  \A i \in 1..Len(orders) :
    /\ orders[i].order_status = "pending"
    /\ orders[i].payment_method = COD => orders[i].payment_status = "pending"
    /\ orders[i].payment_method = ACCOUNT => orders[i].payment_status = "completed"

\* A cash-on-delivery order and an account-credit order were both returned
\* to their callers.
OrdersOfBothMethods ==
  /\ resp.op = "create_order"
  /\ resp.status = 200
  /\ \E i, j \in 1..Len(orders) :
       /\ orders[i].payment_method = COD
       /\ orders[j].payment_method = ACCOUNT
       /\ resp.body \in {Some(orders[i]), Some(orders[j])}

\* C17: an order, once stored, stays stored with the items and the
\* total_amount it was stored with: no step removes it or changes them.
StoredOrdersImmutable ==
  [][/\ Len(orders') >= Len(orders)
     /\ \A i \in 1..Len(orders) :
          /\ orders'[i].id = orders[i].id
          /\ orders'[i].items = orders[i].items
          /\ orders'[i].total_amount = orders[i].total_amount]_vars

\* After the order of 150 bags was stored, its dealer ordered again and then
\* put a product in the cart; the first order is as it was stored.
EarlierOrderIntact ==
  /\ Len(orders) = 2
  /\ orders[1] = PriorOrder
  /\ orders[2].dealer_id = 1
  /\ resp.op = "add_to_cart"
  /\ resp.status = 200
  /\ CartOf(cart_items, 1) # <<>>

\* C18: every cart row stored has a quantity of 1 or more.
CartQuantitiesPositive ==
  \A i \in 1..Len(cart_items) : cart_items[i].quantity >= 1

\* C19: every order stored has at least one item.
OrdersHaveItems ==
  \A i \in 1..Len(orders) : orders[i].items # <<>>

\* C20: a cash-on-delivery create_order with a non-empty cart passes the
\* checks whatever the dealer's available credit; none of its steps writes
\* the dealers collection; and when it returns its order, the dealers are
\* as before the request, the orders are those before the request and the
\* new one, and the cart rows are those before the request without the
\* rows of the dealer.
CodOrderFrame ==
  [][\A s \in Slots :
       LET r == req[s] IN
       (r.op = "create_order" /\ req'[s] # r /\ r.order_data.payment_method = COD) =>
         /\ dealers' = dealers
         /\ (r.pc = "read_cart" /\ CartOf(cart_items, r.dealer.id) # <<>>)
              => /\ req'[s].op = "create_order"
                 /\ req'[s].pc = "insert_order"
         /\ OrderReturns(s)
              => /\ dealers' = r.pre.dealers
                 /\ orders' = Append(r.pre.orders, Val(resp'.body))
                 /\ cart_items' = delete_many(r.pre.cart_items, [dealer_id |-> r.dealer.id])
    ]_vars

\* A cash-on-delivery order was returned whose total is more than the
\* credit the dealer has left; the dealer's balance is the total of the
\* account-credit orders, as before.
CodOrderBeyondCredit ==
  /\ resp.op = "create_order" /\ resp.status = 200
  /\ Val(resp.request).payment_method = COD
  /\ LET o == Val(resp.body)
         dealer == DealerOf(dealers, o.dealer_id)
     IN /\ o.total_amount > dealer.credit_limit - dealer.outstanding_balance
        /\ dealer.outstanding_balance = PriorOrder.total_amount
        /\ dealer.credit_limit = CreditLimit
        /\ CartOf(cart_items, o.dealer_id) = <<>>
        /\ orders = << PriorOrder, o >>

\* C21: a dealer has one outstanding OTP, the one send_otp stored last. A
\* send_otp puts its code and its expiry in the place of those stored; a
\* verify_otp with a code other than the one stored last for the phone is
\* answered 400 "Invalid OTP" at once; and a verify_otp that passes the
\* checks presented the code stored last.
LatestSent(p) == IF sent[p] = <<>> THEN None ELSE Some(sent[p][Len(sent[p])])

SingleOutstandingOtp ==
  [][/\ \A s \in Slots :
          (/\ req[s].op = "send_otp" /\ req'[s] = Idle
           /\ find_one(dealers, [phone |-> req[s].phone]) # None)
          => LET dealer_doc == Val(find_one(dealers', [phone |-> req[s].phone]))
             IN /\ dealer_doc.otp = Some(req[s].otp)
                /\ dealer_doc.otp_expires_at = Some(req[s].otp_expires_at)
     /\ \A p \in Phones, c \in OtpCodes :
          (/\ nreq' = nreq + 1
           /\ find_one(dealers, [phone |-> p]) # None
           /\ LatestSent(p) # Some(c))
          => /\ \A s \in Slots :
                  ~(/\ Free(s)
                    /\ req'[s].op = "verify_otp"
                    /\ req'[s].phone = p
                    /\ req'[s].otp = c)
             /\ (req' = req /\ resp'.op = "verify_otp" /\ resp'.request = VerifyRequest(p, c))
                  => /\ resp'.status = 400
                     /\ resp'.detail = "Invalid OTP"
                     /\ dealers' = dealers]_vars

\* Two codes were stored for a phone, one after the other; the first was
\* then presented and refused, and the second is the one stored.
FirstOtpRefused ==
  \E p \in Phones, c1, c2 \in OtpCodes :
    /\ c1 # c2
    /\ sent[p] = << c1, c2 >>
    /\ resp.op = "verify_otp"
    /\ resp.request = VerifyRequest(p, c1)
    /\ resp.status = 400
    /\ resp.detail = "Invalid OTP"
    /\ Val(find_one(dealers, [phone |-> p])).otp = Some(c2)

\* C22: when a create_order clears the cart, every row it deletes is in the
\* order it stored: the order has an item of the row's product with the
\* row's quantity.
NoCartRowLost ==
  [][\A s \in Slots :
       (/\ req[s].op = "create_order" /\ req[s].pc = "clear_cart"
        /\ req'[s] = Idle /\ resp'.status = 200)
       => \A i \in 1..Len(cart_items) :
            cart_items[i].dealer_id = req[s].dealer.id
            => \E k \in 1..Len(req[s].order.items) :
                 /\ req[s].order.items[k].product_id = cart_items[i].product_id
                 /\ req[s].order.items[k].quantity = cart_items[i].quantity]_vars

\* C23: a cart is ordered at most once: no two stored orders were built from
\* the same cart rows (the same row ids with the same quantities).
CartOrderedAtMostOnce ==
  \A a, b \in orderedRows : a.rows = b.rows => a.order = b.order

\* C24: no two dealer documents have the same phone.
UniquePhones ==
  \A i, j \in 1..Len(dealers) : dealers[i].phone = dealers[j].phone => i = j

====
